---- MODULE Spec2Model ----
(***************************************************************************)
(* PySpecUI: the data registry (peaks/data/datasource.py), its ingestion   *)
(* queue, and the consumer poll loop of the application (peaks/ui/app.py)  *)
(* that drains the queue while ToolRuns (peaks/ui/dialogs/common.py)       *)
(* execute on the single worker thread of the executor.                    *)
(*                                                                         *)
(* Objects live in a heap (a sequence of records); a reference is an index *)
(* into it.  The registry, the queue and the UI tree hold references, as   *)
(* the Python lists hold references to Spectrum / Model objects.           *)
(***************************************************************************)
EXTENDS Integers, Sequences, FiniteSets, TLC

\* ------------------------------------------------------------------ bounds
MaxSubmits == 2     \* ToolRuns started plus Data.Post messages published outside a ToolRun

\* ------------------------------------------------------- program constants
PlaceholderId == -1 \* Spectrum.from_arrays(..., id=-1)
NoneId == -2        \* stands for Python's None in an id field (Spectrum(df, id=None), ModelGauss(spec, None))

Tools == {"load", "transform", "model"}
TraceKinds == {"Spectrum", "Model"}
Kinds == TraceKinds \cup {"Other"}
Exceptions == {"IOError", "ValueError", "RuntimeError"}
NoException == "None"

VARIABLES
    heap,               \* Seq of [kind, id, run]: every object constructed so far
    traces,             \* DataSource.traces: Seq of references
    trace_counter,      \* DataSource.trace_counter
    ingest_queue,       \* DataSource._ingest_queue: Seq of references (FIFO)
    runs,               \* Seq of ToolRun records, with the run's future
    thread_futures,     \* PySpecApp._thread_futures: Seq of run indices
    thread_clock_event, \* PySpecApp._thread_clock_event: TRUE scheduled, FALSE None
    tick_i,             \* loop index i of _check_thread_status; -1 outside a tick
    main_pc,            \* "idle", or the run inside ToolRun.start() after sendMessage
    tree,               \* references handed to the UI tree by _ingest_thread_result
    result,             \* outcome of the last registry call on the consumer thread, with
                        \* the Plotting.RemoveTrace message it published (delete_trace)
    posts,              \* number of Data.Post messages published outside a ToolRun
    assigned,           \* history: <<ref, id>> in the order get_next_task assigned ids
    removed_ids,        \* history: ids whose entry delete_trace removed
    drained,            \* history: items get_next_task returned during the running call
                        \* of _check_thread_status; 0 outside a call
    \* ---- the Spectrum data model (spectrum.py), used by SpecSpectrum
    arrays,             \* the live array objects (pandas Series, ndarray or list)
    histories,          \* the live history lists: Seq of Seq of entries
    spectra,            \* the Spectrum objects the caller holds
    lineage,            \* history: per Spectrum, the from_arrays object its chain of
                        \* apply_* calls started at, and whether its history list is
                        \* still the record of that chain
    sres,               \* outcome of the last Spectrum call
    \* ---- the Gaussian model (models.py), used by SpecGauss
    gauss,              \* the ModelGauss object: params and trace
    gres,               \* outcome of the last ModelGauss call
    \* ---- DataSource.get_unique_name (datasource.py), used by SpecNames
    uq,                 \* the registered traces, and the last get_unique_name call
    \* ---- the wx application (ds.py, gui/subpanels.py), used by SpecDs
    ds_traces,          \* DataSource.traces of ds.py: Seq of [id, is_plotted]
    ds_trace_counter,   \* DataSource.trace_counter of ds.py
    tree_items,         \* ids of the traces that have an item in DataTab.tree
    plotted_traces,     \* PlotRegion.plotted_traces: Seq of ids
    is_blank,           \* PlotRegion.is_blank
    plot_thread,        \* calls submitted to wx.GetApp().PlotThread(), oldest first
    clicks,             \* number of user commands so far
    dres,               \* outcome of the last user command
    \* ---- the peak detector (models.py ParamGuess, ExecModel), used by SpecGuess
    target,             \* the Spectrum the model is bound to: its x and y columns
    pres                \* outcome of the last ParamGuess or ExecModel call

\* the variables of the registry, the poll loop and the worker
app_vars == <<heap, traces, trace_counter, ingest_queue, runs, thread_futures,
              thread_clock_event, tick_i, main_pc, tree, result, posts,
              assigned, removed_ids, drained>>

\* the variables of the Spectrum data model
spectrum_vars == <<arrays, histories, spectra, lineage, sres>>

gauss_vars == <<gauss, gres>>
name_vars == <<uq>>
ds_vars == <<ds_traces, ds_trace_counter, tree_items, plotted_traces, is_blank,
             plot_thread, clicks, dres>>
guess_vars == <<target, pres>>
vars == <<app_vars, spectrum_vars, gauss_vars, name_vars, ds_vars, guess_vars>>

\* ----------------------------------------------------------------- helpers
Range(s) == {s[k] : k \in 1..Len(s)}

\* list.pop(i) with a 1-based index
Pop(s, k) == [j \in 1..(Len(s) - 1) |-> IF j < k THEN s[j] ELSE s[j + 1]]

\* the position of the first entry of tr whose id equals t_id, 0 when none
FirstWithId(tr, hp, t_id) ==
    IF \E k \in 1..Len(tr) : hp[tr[k]].id = t_id
    THEN CHOOSE k \in 1..Len(tr) :
            /\ hp[tr[k]].id = t_id
            /\ \A j \in 1..(k - 1) : hp[tr[j]].id # t_id
    ELSE 0

IdsOf(tr, hp) == {hp[tr[k]].id : k \in 1..Len(tr)}

NoMsg == [t_id |-> 0, resolvable |-> FALSE]
NoResult == [op |-> "none", arg |-> 0, ret |-> 0, raised |-> NoException, msg |-> NoMsg]

\* ------------------------------------------------- DataSource (datasource.py)
\* mutant: the counter is returned without being incremented
_get_next_id_stale(ctr) == ctr

\* DataSource._get_next_id: increments trace_counter and returns it
_get_next_id(ctr) == ctr + 1

\* mutant: a single hand-off slot instead of a FIFO, a second post overwrites the first
_post_data_slot(q, data) == <<data>>

\* DataSource._post_data: Queue.put of the posted object
_post_data(q, data) == Append(q, data)

\* mutant: the id is derived from the registry's length instead of the counter
get_next_task_len(q, tr, ctr, hp) ==
    IF Len(q) = 0
    THEN [ret |-> 0, queue |-> q, traces |-> tr, counter |-> ctr, heap |-> hp]
    ELSE LET data == Head(q) IN
         IF hp[data].kind \in TraceKinds
         THEN [ret |-> data, queue |-> Tail(q), traces |-> Append(tr, data),
               counter |-> Len(tr) + 1, heap |-> [hp EXCEPT ![data].id = Len(tr) + 1]]
         ELSE [ret |-> data, queue |-> Tail(q), traces |-> tr,
               counter |-> ctr, heap |-> hp]

\* mutant: the newest item is taken instead of the oldest
get_next_task_lifo(q, tr, ctr, hp) ==
    IF Len(q) = 0
    THEN [ret |-> 0, queue |-> q, traces |-> tr, counter |-> ctr, heap |-> hp]
    ELSE LET data == q[Len(q)] IN
         IF hp[data].kind \in TraceKinds
         THEN [ret |-> data, queue |-> SubSeq(q, 1, Len(q) - 1),
               traces |-> Append(tr, data), counter |-> ctr + 1,
               heap |-> [hp EXCEPT ![data].id = ctr + 1]]
         ELSE [ret |-> data, queue |-> SubSeq(q, 1, Len(q) - 1), traces |-> tr,
               counter |-> ctr, heap |-> hp]

\* DataSource.get_next_task: one non-blocking get; ret = 0 stands for None
get_next_task(q, tr, ctr, hp) ==
    IF Len(q) = 0
    THEN [ret |-> 0, queue |-> q, traces |-> tr, counter |-> ctr, heap |-> hp]
    ELSE LET data == Head(q) IN
         IF hp[data].kind \in TraceKinds
         THEN LET id == _get_next_id(ctr) IN
              [ret |-> data, queue |-> Tail(q), traces |-> Append(tr, data),
               counter |-> id, heap |-> [hp EXCEPT ![data].id = id]]
         ELSE [ret |-> data, queue |-> Tail(q), traces |-> tr,
               counter |-> ctr, heap |-> hp]

\* mutant: None is returned for an unknown id instead of raising
get_trace_none(t_id, tr, hp) ==
    LET k == FirstWithId(tr, hp, t_id) IN
    [ret |-> IF k # 0 THEN tr[k] ELSE 0, raised |-> NoException]

\* DataSource.get_trace: the first entry with the id, or ValueError
get_trace(t_id, tr, hp) ==
    LET k == FirstWithId(tr, hp, t_id) IN
    IF k # 0
    THEN [ret |-> tr[k], raised |-> NoException]
    ELSE [ret |-> 0, raised |-> "ValueError"]

\* mutant: the last entry is popped whenever the id is found
delete_trace_last(target_id, tr, hp) ==
    LET k == FirstWithId(tr, hp, target_id) IN
    [msg |-> [t_id |-> target_id, resolvable |-> k # 0],
     traces |-> IF k # 0 THEN Pop(tr, Len(tr)) ELSE tr,
     raised |-> NoException]

\* mutant: the entry is popped before Plotting.RemoveTrace is published
delete_trace_late(target_id, tr, hp) ==
    LET k == FirstWithId(tr, hp, target_id)
        popped == IF k # 0 THEN Pop(tr, k) ELSE tr
    IN [msg |-> [t_id |-> target_id,
                 resolvable |-> FirstWithId(popped, hp, target_id) # 0],
        traces |-> popped,
        raised |-> NoException]

\* DataSource.delete_trace: publishes Plotting.RemoveTrace (line 43), then pops
\* the first entry with the id (lines 44-47).  msg.resolvable is what a listener
\* calling get_trace(t_id) during the publication finds.  Nothing is raised and
\* nothing is returned on either path.
delete_trace(target_id, tr, hp) ==
    LET msg == [t_id |-> target_id,
                resolvable |-> get_trace(target_id, tr, hp).raised = NoException]
        k == FirstWithId(tr, hp, target_id)
    IN [msg |-> msg,
        traces |-> IF k # 0 THEN Pop(tr, k) ELSE tr,
        raised |-> NoException]

\* ------------------------------------------------ what a worker constructs
\* parse_csv: Spectrum(df, specunit=..., name=...) keeps the default id=None
parse_csv(r) == [kind |-> "Spectrum", id |-> NoneId, run |-> r]

\* mutant: the result keeps the id of the spectrum it was derived from
apply_spec_keep_id(hp, src, r) == [kind |-> "Spectrum", id |-> hp[src].id, run |-> r]

\* Spectrum.apply_spec / apply_freq / apply_spec_freq on the registered
\* spectrum src: Spectrum.from_arrays(..., id=-1, ...)
apply_spec(hp, src, r) == [kind |-> "Spectrum", id |-> PlaceholderId, run |-> r]

\* GaussModelDialog.execute: ModelGauss(spectrum, None, ...)
new_model(hp, src, r) == [kind |-> "Model", id |-> NoneId, run |-> r]

\* Tool.execute up to its post_data call: the object the tool posts
execute(tool, hp, src, r) ==
    CASE tool = "load" -> parse_csv(r)
      [] tool = "transform" -> apply_spec(hp, src, r)
      [] tool = "model" -> new_model(hp, src, r)

\* ToolRun.append_status: message_text += message + '\n' (one element per line)
append_status(message_text, message) == Append(message_text, message)

\* ---------------------------------------------------------------- initial
\* no Spectrum call has been made
NoEntry == [type |-> "none", callable |-> "none", args |-> <<>>, kwargs |-> {}]
NoSRes == [op |-> "none", self |-> 0, other |-> 0, entry |-> NoEntry, ret |-> 0,
           raised |-> "None"]

SpectrumIdle ==
    /\ arrays = <<>>
    /\ histories = <<>>
    /\ spectra = <<>>
    /\ lineage = <<>>
    /\ sres = NoSRes

\* Model.__init__: params = None, trace = None
NoParams == [kind |-> "None", vals |-> <<>>]
NoValue == [kind |-> "None", vals |-> <<>>]
NoGRes == [op |-> "none", arg |-> <<>>, ret |-> NoValue, raised |-> "None", log |-> "None",
           before |-> "None"]
GaussIdle ==
    /\ gauss = [params |-> NoParams, trace |-> NoValue]
    /\ gres = NoGRes

NoUq == [traces |-> <<>>, op |-> "none", base |-> <<>>, ret |-> <<>>, raised |-> "None"]
NameIdle == uq = NoUq

AppInit ==
    /\ heap = <<>>
    /\ traces = <<>>
    /\ trace_counter = 0
    /\ ingest_queue = <<>>
    /\ runs = <<>>
    /\ thread_futures = <<>>
    /\ thread_clock_event = FALSE
    /\ tick_i = -1
    /\ main_pc = 0
    /\ tree = <<>>
    /\ result = NoResult
    /\ posts = 0
    /\ assigned = <<>>
    /\ removed_ids = {}
    /\ drained = 0

\* DataSource.__init__ of ds.py, PlotRegion.__init__, an empty tree
NoDRes == [op |-> "None", arg |-> 0, registered |-> FALSE, raised |-> NoException]
DsIdle ==
    /\ ds_traces = <<>>
    /\ ds_trace_counter = 0
    /\ tree_items = {}
    /\ plotted_traces = <<>>
    /\ is_blank = TRUE
    /\ plot_thread = <<>>
    /\ clicks = 0
    /\ dres = NoDRes

\* no model bound to a Spectrum yet
NoTarget == [x |-> <<>>, y |-> <<>>]
NoPRes == [op |-> "None"]
GuessIdle ==
    /\ target = NoTarget
    /\ pres = NoPRes

Init ==
    /\ AppInit
    /\ SpectrumIdle
    /\ GaussIdle
    /\ NameIdle
    /\ DsIdle
    /\ GuessIdle

ConsumerIdle == tick_i = -1 /\ main_pc = 0

RegisteredSpectra == {ref \in Range(traces) : heap[ref].kind = "Spectrum"}

\* a step of the application leaves the other worlds of this module alone
Elsewhere == UNCHANGED <<spectrum_vars, gauss_vars, name_vars, ds_vars, guess_vars>>

\* ------------------------------------------------- consumer-thread actions
\* ParameterListDialog._execute: ToolRun(...) then tr.start() up to and including
\* its sendMessage('Data.StartThread'), which runs PySpecApp._launch_in_thread.
\* A transform or a fit takes the spectrum chosen in the dialog.
ToolRunLaunch(tool, src) ==
    /\ ConsumerIdle
    /\ Len(runs) + posts < MaxSubmits
    /\ IF tool = "load" THEN src = 0 ELSE src \in RegisteredSpectra
    /\ runs' = Append(runs, [tool |-> tool, src |-> src, status |-> "Not Started",
                             message_text |-> <<>>, future |-> "pending",
                             exception |-> NoException, posted |-> FALSE])
    /\ thread_futures' = Append(thread_futures, Len(runs) + 1)
    /\ thread_clock_event' = TRUE
    /\ main_pc' = Len(runs) + 1
    /\ Elsewhere
    /\ UNCHANGED <<heap, traces, trace_counter, ingest_queue, tick_i, tree,
                   result, posts, assigned, removed_ids, drained>>

\* ToolRun.start after sendMessage returns: status = 'Running'
ToolRunStarted ==
    /\ main_pc # 0
    /\ runs' = [runs EXCEPT ![main_pc].status = "Running"]
    /\ main_pc' = 0
    /\ Elsewhere
    /\ UNCHANGED <<heap, traces, trace_counter, ingest_queue, thread_futures,
                   thread_clock_event, tick_i, tree, result, posts,
                   assigned, removed_ids, drained>>

\* a Data.Post message published on the consumer thread (ParameterListDialog.post_data)
PostDirect(kind) ==
    /\ ConsumerIdle
    /\ Len(runs) + posts < MaxSubmits
    /\ heap' = Append(heap, [kind |-> kind,
                             id |-> IF kind = "Spectrum" THEN PlaceholderId ELSE NoneId,
                             run |-> 0])
    /\ ingest_queue' = _post_data(ingest_queue, Len(heap) + 1)
    /\ posts' = posts + 1
    /\ Elsewhere
    /\ UNCHANGED <<traces, trace_counter, runs, thread_futures, thread_clock_event,
                   tick_i, main_pc, tree, result, assigned, removed_ids, drained>>

DeleteTrace(t) ==
    /\ ConsumerIdle
    /\ LET d == delete_trace(t, traces, heap) IN
       /\ traces' = d.traces
       /\ result' = [op |-> "delete_trace", arg |-> t, ret |-> 0, raised |-> d.raised,
                     msg |-> d.msg]
       /\ removed_ids' = IF Len(d.traces) < Len(traces)
                         THEN removed_ids \cup {t} ELSE removed_ids
    /\ Elsewhere
    /\ UNCHANGED <<heap, trace_counter, ingest_queue, runs, thread_futures,
                   thread_clock_event, tick_i, main_pc, tree, posts, assigned, drained>>

GetTrace(t) ==
    /\ ConsumerIdle
    /\ LET g == get_trace(t, traces, heap) IN
       result' = [op |-> "get_trace", arg |-> t, ret |-> g.ret, raised |-> g.raised,
                  msg |-> NoMsg]
    /\ Elsewhere
    /\ UNCHANGED <<heap, traces, trace_counter, ingest_queue, runs, thread_futures,
                   thread_clock_event, tick_i, main_pc, tree, posts,
                   assigned, removed_ids, drained>>

\* ------------------------------------------------- the poll (app.py 83-118)
\* Kivy's Clock fires the scheduled _check_thread_status: i = 0 (line 89)
ClockTick ==
    /\ ConsumerIdle
    /\ thread_clock_event
    /\ tick_i' = 0
    /\ drained' = 0
    /\ Elsewhere
    /\ UNCHANGED <<heap, traces, trace_counter, ingest_queue, runs, thread_futures,
                   thread_clock_event, main_pc, tree, result, posts,
                   assigned, removed_ids>>

\* mutant: a finished run is marked Succeeded without looking at future.exception()
check_future_blind(rs, futs, i) ==
    LET r == futs[i + 1] IN
    IF rs[r].future = "done"
    THEN [runs |-> [rs EXCEPT ![r].status = "Succeeded"],
          futures |-> Pop(futs, i + 1),
          i |-> i]
    ELSE [runs |-> rs, futures |-> futs, i |-> i + 1]

\* mutant: the status is set but the future stays in the list
check_future_no_pop(rs, futs, i) ==
    LET r == futs[i + 1] IN
    IF rs[r].future = "done"
    THEN [runs |-> IF rs[r].exception # NoException
                   THEN [rs EXCEPT ![r].status = "Failed"]
                   ELSE [rs EXCEPT ![r].status = "Succeeded"],
          futures |-> futs,
          i |-> i + 1]
    ELSE [runs |-> rs, futures |-> futs, i |-> i + 1]

\* lines 92-104: the status of the run at position i, and the list after the pop
check_future(rs, futs, i) ==
    LET r == futs[i + 1] IN
    IF rs[r].future = "done"
    THEN [runs |-> IF rs[r].exception # NoException
                   THEN [rs EXCEPT ![r].status = "Failed",
                                   ![r].message_text =
                                       append_status(rs[r].message_text, rs[r].exception)]
                   ELSE [rs EXCEPT ![r].status = "Succeeded"],
          futures |-> Pop(futs, i + 1),
          i |-> i]
    ELSE [runs |-> rs, futures |-> futs, i |-> i + 1]

\* PySpecApp._check_new_data given the futures left: what get_next_task did, whether the
\* result goes to the tree (_ingest_thread_result) and whether the poll is unscheduled
_check_new_data(q, tr, ctr, hp, futs) ==
    LET task == get_next_task(q, tr, ctr, hp) IN
    [task |-> task,
     ingest |-> task.ret # 0,
     unschedule |-> task.ret = 0 /\ Len(futs) = 0]

\* one pass of the while loop of _check_thread_status (lines 90-106)
TickIter ==
    /\ tick_i >= 0
    /\ tick_i < Len(thread_futures)
    /\ LET f == check_future(runs, thread_futures, tick_i)
           c == _check_new_data(ingest_queue, traces, trace_counter, heap, f.futures)
           registered == Len(c.task.traces) > Len(traces)
       IN
       /\ runs' = f.runs
       /\ thread_futures' = f.futures
       /\ tick_i' = f.i
       /\ ingest_queue' = c.task.queue
       /\ traces' = c.task.traces
       /\ trace_counter' = c.task.counter
       /\ heap' = c.task.heap
       /\ tree' = IF c.ingest /\ heap[c.task.ret].kind \in TraceKinds
                  THEN Append(tree, c.task.ret) ELSE tree
       /\ thread_clock_event' = IF c.unschedule THEN FALSE ELSE thread_clock_event
       /\ result' = [op |-> "get_next_task", arg |-> 0, ret |-> c.task.ret,
                     raised |-> NoException, msg |-> NoMsg]
       /\ assigned' = IF registered
                      THEN Append(assigned, <<c.task.ret, c.task.heap[c.task.ret].id>>)
                      ELSE assigned
       /\ drained' = IF c.ingest THEN drained + 1 ELSE drained
    /\ Elsewhere
    /\ UNCHANGED <<main_pc, posts, removed_ids>>

\* the while condition fails (line 90): the callback returns
TickEnd ==
    /\ tick_i >= 0
    /\ tick_i >= Len(thread_futures)
    /\ tick_i' = -1
    /\ drained' = 0
    /\ Elsewhere
    /\ UNCHANGED <<heap, traces, trace_counter, ingest_queue, runs, thread_futures,
                   thread_clock_event, main_pc, tree, result, posts,
                   assigned, removed_ids>>

\* ------------------------------ the worker thread (executor, max_workers=1)
WorkerUnchanged ==
    /\ Elsewhere
    /\ UNCHANGED <<traces, trace_counter, thread_futures, thread_clock_event, tick_i,
                   main_pc, tree, result, posts, assigned, removed_ids, drained>>

\* the executor's thread takes the oldest pending call (ToolRun.get_call)
WorkerBegin(r) ==
    /\ runs[r].future = "pending"
    /\ \A o \in 1..Len(runs) : runs[o].future # "running"
    /\ \A o \in 1..(r - 1) : runs[o].future # "pending"
    /\ runs' = [runs EXCEPT ![r].future = "running"]
    /\ UNCHANGED <<heap, ingest_queue>>
    /\ WorkerUnchanged

\* Tool.execute builds its result and calls app.post_data(data=...), its last statement
WorkerPost(r) ==
    /\ runs[r].future = "running"
    /\ ~runs[r].posted
    /\ heap' = Append(heap, execute(runs[r].tool, heap, runs[r].src, r))
    /\ ingest_queue' = _post_data(ingest_queue, Len(heap) + 1)
    /\ runs' = [runs EXCEPT ![r].posted = TRUE]
    /\ WorkerUnchanged

\* Tool.execute returns: the future is done without an exception
WorkerReturn(r) ==
    /\ runs[r].future = "running"
    /\ runs[r].posted
    /\ runs' = [runs EXCEPT ![r].future = "done"]
    /\ UNCHANGED <<heap, ingest_queue>>
    /\ WorkerUnchanged

\* what each tool raises: parse_csv IOError, apply_* ValueError, the fit RuntimeError
raises(tool) ==
    CASE tool = "load" -> "IOError"
      [] tool = "transform" -> "ValueError"
      [] tool = "model" -> "RuntimeError"

\* Tool.execute raises before it posts: the future holds the exception
WorkerRaise(r, e) ==
    /\ runs[r].future = "running"
    /\ ~runs[r].posted
    /\ e = raises(runs[r].tool)
    /\ runs' = [runs EXCEPT ![r].future = "done", ![r].exception = e]
    /\ UNCHANGED <<heap, ingest_queue>>
    /\ WorkerUnchanged

WorkerStep ==
    \E r \in 1..Len(runs) :
        \/ WorkerBegin(r)
        \/ WorkerPost(r)
        \/ WorkerReturn(r)
        \/ \E e \in Exceptions : WorkerRaise(r, e)

\* ids a caller may ask for: every id assigned so far, and one never assigned
TargetIds == 1..(trace_counter + 1)

ConsumerStep ==
    \/ \E tool \in Tools : \E src \in {0} \cup Range(traces) : ToolRunLaunch(tool, src)
    \/ ToolRunStarted
    \/ \E kind \in Kinds : PostDirect(kind)
    \/ \E t \in TargetIds : DeleteTrace(t)
    \/ \E t \in TargetIds : GetTrace(t)
    \/ ClockTick
    \/ TickIter
    \/ TickEnd

Next == ConsumerStep \/ WorkerStep

Spec == Init /\ [][Next]_vars

\* The same program under its scheduling: Kivy's Clock keeps calling a scheduled
\* _check_thread_status, a callback on the main thread runs to its end (the while loop,
\* ToolRun.start), and the executor's thread runs every submitted call to its end.
\* Nothing obliges the user to start a ToolRun or to publish a message.
SpecFair ==
    /\ Init
    /\ [][Next]_vars
    /\ WF_vars(ToolRunStarted)
    /\ WF_vars(ClockTick)
    /\ WF_vars(TickIter)
    /\ WF_vars(TickEnd)
    /\ WF_vars(WorkerStep)

\* ============================================ the Spectrum data model (spectrum.py)
\* A store st = [a, h, s] holds the array objects, the history lists and the
\* Spectrum objects; a reference is an index into the matching sequence.  An array
\* object is [vals, series]: series = TRUE is a pandas Series with the default
\* index, FALSE a list or ndarray.  Every operator below returns the store after
\* the call together with what the call returned or raised.
MaxSpectra == 4     \* Spectrum objects a caller holds over a behaviour

NaN == -99          \* the value pandas fills in where aligned Series have no entry

NameTable == <<"testspec", "testspec2", "modified_testspec">>
ArrayFns == {"add_constant", "drop_last", "head_list"}
SpecFns == {"add_constant", "head_list"}
FreqFns == {"drop_last"}
PairFns == {"scale_axes"}
ObjectFns == {"rename"}
HistoryKinds == {"spec", "freq", "spec_freq", "object"}
NoKwargs == {}
Negative == {<<"negative", TRUE>>}

Max(a, b) == IF a > b THEN a ELSE b
Pad(vals, n) == [k \in 1..n |-> IF k <= Len(vals) THEN vals[k] ELSE NaN]

\* a new array object; its reference is Len(st.a) + 1
new_array(st, vals, series) ==
    [st EXCEPT !.a = Append(@, [vals |-> vals, series |-> series])]

\* Series.copy()
series_copy(st, a) == new_array(st, st.a[a].vals, TRUE)

\* mutant: the columns are taken as they come, whatever their lengths
DataFrame_unchecked(f, s) ==
    [raised |-> NoException, x |-> f.vals, y |-> s.vals]

\* pd.DataFrame({'frequency': freq, 'signal': spec}): two Series are aligned on the
\* union of their indexes, anything else must have the length of the index
DataFrame(f, s) ==
    LET n == Len(f.vals)
        m == Len(s.vals)
    IN IF f.series /\ s.series
       THEN [raised |-> NoException, x |-> Pad(f.vals, Max(n, m)), y |-> Pad(s.vals, Max(n, m))]
       ELSE IF n # m
            THEN [raised |-> "ValueError", x |-> <<>>, y |-> <<>>]
            ELSE [raised |-> NoException, x |-> f.vals, y |-> s.vals]

\* Spectrum.from_arrays, with Spectrum.__init__: the frame's columns are copied into
\* the new object, history = [], and min() of an empty column raises
from_arrays(st, freq, spec, id, specunit, frequnit, name) ==
    LET df == DataFrame(st.a[freq], st.a[spec]) IN
    IF df.raised # NoException \/ Len(df.x) = 0
    THEN [st |-> st, ret |-> 0, raised |-> "ValueError"]
    ELSE LET st1 == new_array(new_array(st, df.x, TRUE), df.y, TRUE)
             st2 == [st1 EXCEPT !.h = Append(@, <<>>)]
             obj == [x |-> Len(st1.a) - 1, y |-> Len(st1.a), name |-> name,
                     specunit |-> specunit, frequnit |-> frequnit, id |-> id,
                     history |-> Len(st2.h)]
         IN [st |-> [st2 EXCEPT !.s = Append(@, obj)],
             ret |-> Len(st2.s) + 1, raised |-> NoException]

\* ------------------------------------------------- the transform functions
\* values stay NaN under arithmetic
Plus(v, c) == IF v = NaN THEN NaN ELSE v + c
Times(v, c) == IF v = NaN THEN NaN ELSE v * c

\* func(array, *args, **kwargs) for the one-array functions:
\*   add_constant(y, const, negative=False): a new Series y + const * (+-1)
\*   drop_last(y): the Series y[:-1]
\*   head_list(y): the list list(y)[:-1]
call_array_fn(st, func, a, args, kwargs) ==
    LET v == st.a[a].vals IN
    CASE func = "add_constant" ->
            LET c == IF kwargs = Negative THEN 0 - args[1] ELSE args[1]
                st1 == new_array(st, [k \in 1..Len(v) |-> Plus(v[k], c)], TRUE)
            IN [st |-> st1, ret |-> Len(st1.a)]
      [] func = "drop_last" ->
            LET st1 == new_array(st, SubSeq(v, 1, Len(v) - 1), TRUE)
            IN [st |-> st1, ret |-> Len(st1.a)]
      [] func = "head_list" ->
            LET st1 == new_array(st, SubSeq(v, 1, Len(v) - 1), FALSE)
            IN [st |-> st1, ret |-> Len(st1.a)]

\* scale_axes(x, y, factor): x *= factor; y *= factor; return x, y
\* (scales the two arrays it is handed in place and returns them)
call_pair_fn(st, func, ax, ay, args, kwargs) ==
    LET vx == st.a[ax].vals
        vy == st.a[ay].vals
    IN [st |-> [st EXCEPT !.a[ax].vals = [k \in 1..Len(vx) |-> Times(vx[k], args[1])],
                          !.a[ay].vals = [k \in 1..Len(vy) |-> Times(vy[k], args[1])]],
        retx |-> ax, rety |-> ay]

\* rename(spec, new): sets the name of the Spectrum it is handed and returns it
call_object_fn(st, func, obj, args, kwargs) ==
    [st |-> [st EXCEPT !.s[obj].name = NameTable[args[1]]], ret |-> obj]

\* new.history = deepcopy(self.history); new.history.append(entry)
set_history(st, new, self, entry) ==
    LET st1 == [st EXCEPT !.h = Append(@, st.h[st.s[self].history])]
    IN [st1 EXCEPT !.s[new].history = Len(st1.h),
                   !.h[Len(st1.h)] = Append(@, entry)]

Entry(kind, func, args, kwargs) ==
    [type |-> kind, callable |-> func, args |-> args, kwargs |-> kwargs]

\* ------------------------------------------------- Spectrum.apply_*
Failed(st) == [st |-> st, ret |-> 0, raised |-> "ValueError"]

\* new_spec = func(self.gety().copy(), ...); from_arrays(self.getx().copy(), new_spec)
Spectrum_apply_spec(st, self, func, args, kwargs) ==
    LET me == st.s[self]
        st1 == series_copy(st, me.y)
        call == call_array_fn(st1, func, Len(st1.a), args, kwargs)
        st2 == series_copy(call.st, me.x)
        made == from_arrays(st2, Len(st2.a), call.ret, PlaceholderId,
                            me.specunit, me.frequnit, me.name)
    IN IF made.raised # NoException THEN Failed(made.st)
       ELSE [made EXCEPT !.st = set_history(made.st, made.ret, self,
                                            Entry("spec", func, args, kwargs))]

\* mutant: the entry is recorded under the kind of apply_spec
Spectrum_apply_freq_as_spec(st, self, func, args, kwargs) ==
    LET me == st.s[self]
        st1 == series_copy(st, me.x)
        call == call_array_fn(st1, func, Len(st1.a), args, kwargs)
        st2 == series_copy(call.st, me.y)
        made == from_arrays(st2, call.ret, Len(st2.a), PlaceholderId,
                            me.specunit, me.frequnit, me.name)
    IN IF made.raised # NoException THEN Failed(made.st)
       ELSE [made EXCEPT !.st = set_history(made.st, made.ret, self,
                                            Entry("spec", func, args, kwargs))]

\* new_freq = func(self.getx().copy(), ...); from_arrays(new_freq, self.gety().copy())
Spectrum_apply_freq(st, self, func, args, kwargs) ==
    LET me == st.s[self]
        st1 == series_copy(st, me.x)
        call == call_array_fn(st1, func, Len(st1.a), args, kwargs)
        st2 == series_copy(call.st, me.y)
        made == from_arrays(st2, call.ret, Len(st2.a), PlaceholderId,
                            me.specunit, me.frequnit, me.name)
    IN IF made.raised # NoException THEN Failed(made.st)
       ELSE [made EXCEPT !.st = set_history(made.st, made.ret, self,
                                            Entry("freq", func, args, kwargs))]

\* new_freq, new_spec = func(self.getx().copy(), self.gety().copy(), ...)
Spectrum_apply_spec_freq(st, self, func, args, kwargs) ==
    LET me == st.s[self]
        st1 == series_copy(st, me.x)
        st2 == series_copy(st1, me.y)
        call == call_pair_fn(st2, func, Len(st1.a), Len(st2.a), args, kwargs)
        made == from_arrays(call.st, call.retx, call.rety, PlaceholderId,
                            me.specunit, me.frequnit, me.name)
    IN IF made.raised # NoException THEN Failed(made.st)
       ELSE [made EXCEPT !.st = set_history(made.st, made.ret, self,
                                            Entry("spec_freq", func, args, kwargs))]

\* new_obj = func(Spectrum.from_arrays(self.getx(), self.gety(), ...), ...)
Spectrum_apply_object(st, self, func, args, kwargs) ==
    LET me == st.s[self]
        made == from_arrays(st, me.x, me.y, PlaceholderId,
                            me.specunit, me.frequnit, me.name)
        call == call_object_fn(made.st, func, made.ret, args, kwargs)
    IN IF made.raised # NoException THEN Failed(made.st)
       ELSE [st |-> set_history(call.st, call.ret, self,
                                Entry("object", func, args, kwargs)),
             ret |-> call.ret, raised |-> NoException]

\* mutant: the recorded keyword arguments are not passed on
apply_entry_no_kwargs(st, ret, entry) ==
    CASE entry.type = "spec" ->
            Spectrum_apply_spec(st, ret, entry.callable, entry.args, NoKwargs)
      [] entry.type = "freq" ->
            Spectrum_apply_freq(st, ret, entry.callable, entry.args, NoKwargs)
      [] entry.type = "spec_freq" ->
            Spectrum_apply_spec_freq(st, ret, entry.callable, entry.args, NoKwargs)
      [] entry.type = "object" ->
            Spectrum_apply_object(st, ret, entry.callable, entry.args, NoKwargs)
      [] OTHER -> Failed(st)

\* mutant: an entry of an unknown kind is passed over
apply_entry_skip_unknown(st, ret, entry) ==
    CASE entry.type = "spec" ->
            Spectrum_apply_spec(st, ret, entry.callable, entry.args, entry.kwargs)
      [] entry.type = "freq" ->
            Spectrum_apply_freq(st, ret, entry.callable, entry.args, entry.kwargs)
      [] entry.type = "spec_freq" ->
            Spectrum_apply_spec_freq(st, ret, entry.callable, entry.args, entry.kwargs)
      [] entry.type = "object" ->
            Spectrum_apply_object(st, ret, entry.callable, entry.args, entry.kwargs)
      [] OTHER -> [st |-> st, ret |-> ret, raised |-> NoException]

\* the dispatch of one history entry in apply_history
apply_entry(st, ret, entry) ==
    CASE entry.type = "spec" ->
            Spectrum_apply_spec(st, ret, entry.callable, entry.args, entry.kwargs)
      [] entry.type = "freq" ->
            Spectrum_apply_freq(st, ret, entry.callable, entry.args, entry.kwargs)
      [] entry.type = "spec_freq" ->
            Spectrum_apply_spec_freq(st, ret, entry.callable, entry.args, entry.kwargs)
      [] entry.type = "object" ->
            Spectrum_apply_object(st, ret, entry.callable, entry.args, entry.kwargs)
      [] OTHER -> Failed(st)

RECURSIVE replay(_, _, _)
\* for entry in other.history: ret = ret.apply_*(...); an exception ends the loop
replay(st, ret, entries) ==
    IF entries = <<>> THEN [st |-> st, ret |-> ret, raised |-> NoException]
    ELSE LET step == apply_entry(st, ret, Head(entries)) IN
         IF step.raised # NoException THEN step
         ELSE replay(step.st, step.ret, Tail(entries))

Reverse(seq) == [k \in 1..Len(seq) |-> seq[Len(seq) + 1 - k]]

\* mutant: the entries are replayed last to first
Spectrum_apply_history_reversed(st, self, other) ==
    replay(st, self, Reverse(st.h[st.s[other].history]))

\* ret = self; ...; return ret
Spectrum_apply_history(st, self, other) ==
    replay(st, self, st.h[st.s[other].history])

\* ------------------------------------------------- the caller of the Spectrum API
InputFreq == {<<1, 2>>}
InputSpec == {<<4, 5>>, <<6>>}

\* the calls made with each function: <<args, kwargs>>
Calls(func) ==
    CASE func = "add_constant" -> {<<(<<1>>), Negative>>}
      [] func = "scale_axes" -> {<<(<<2>>), NoKwargs>>}
      [] func = "rename" -> {<<(<<3>>), NoKwargs>>}
      [] OTHER -> {<<(<<>>), NoKwargs>>}

Store == [a |-> arrays, h |-> histories, s |-> spectra]

\* what reference counting leaves after a call: the n Spectrum objects the caller
\* held, the returned one, and the arrays and history lists those refer to
collect(st, n, ret) ==
    LET keep == IF ret > n THEN Append(SubSeq(st.s, 1, n), st.s[ret]) ELSE SubSeq(st.s, 1, n)
        liveA == {keep[k].x : k \in 1..Len(keep)} \cup {keep[k].y : k \in 1..Len(keep)}
        liveH == {keep[k].history : k \in 1..Len(keep)}
        rankA(a) == Cardinality({b \in liveA : b <= a})
        rankH(h) == Cardinality({b \in liveH : b <= h})
    IN [a |-> [k \in 1..Cardinality(liveA) |-> st.a[CHOOSE a \in liveA : rankA(a) = k]],
        h |-> [k \in 1..Cardinality(liveH) |-> st.h[CHOOSE h \in liveH : rankH(h) = k]],
        s |-> [k \in 1..Len(keep) |->
                 [keep[k] EXCEPT !.x = rankA(@), !.y = rankA(@), !.history = rankH(@)]]]

\* the caller's state after a call that returned or raised out
Returned(op, self, other, entry, result_of_call, intact) ==
    \E out \in {result_of_call} : \E st \in {collect(out.st, Len(spectra), out.ret)} :
    LET n == Len(spectra)
    IN /\ arrays' = st.a
       /\ histories' = st.h
       /\ spectra' = st.s
       /\ lineage' = IF out.ret > n
                     THEN Append(lineage, [base |-> IF self = 0 THEN n + 1 ELSE lineage[self].base,
                                           intact |-> intact])
                     ELSE lineage
       /\ sres' = [op |-> op, self |-> self, other |-> other, entry |-> entry,
                   ret |-> IF out.ret > n THEN n + 1 ELSE out.ret, raised |-> out.raised]
       /\ UNCHANGED <<app_vars, gauss_vars, name_vars, ds_vars, guess_vars>>

\* an exception no caller catches ends the caller
Running == sres.raised = NoException

FromArrays(freq, spec) ==
    /\ Running
    /\ Len(spectra) < MaxSpectra
    /\ LET st1 == new_array(new_array(Store, freq, FALSE), spec, FALSE)
           out == from_arrays(st1, Len(st1.a) - 1, Len(st1.a), PlaceholderId,
                              "y", "x", NameTable[1])
       IN Returned("from_arrays", 0, 0, NoEntry, out, TRUE)

ApplySpec(self, func, args, kwargs) ==
    /\ Running
    /\ Len(spectra) < MaxSpectra
    /\ Returned("spec", self, 0, Entry("spec", func, args, kwargs),
                Spectrum_apply_spec(Store, self, func, args, kwargs), lineage[self].intact)

ApplyFreq(self, func, args, kwargs) ==
    /\ Running
    /\ Len(spectra) < MaxSpectra
    /\ Returned("freq", self, 0, Entry("freq", func, args, kwargs),
                Spectrum_apply_freq(Store, self, func, args, kwargs), lineage[self].intact)

ApplySpecFreq(self, func, args, kwargs) ==
    /\ Running
    /\ Len(spectra) < MaxSpectra
    /\ Returned("spec_freq", self, 0, Entry("spec_freq", func, args, kwargs),
                Spectrum_apply_spec_freq(Store, self, func, args, kwargs), lineage[self].intact)

ApplyObject(self, func, args, kwargs) ==
    /\ Running
    /\ Len(spectra) < MaxSpectra
    /\ Returned("object", self, 0, Entry("object", func, args, kwargs),
                Spectrum_apply_object(Store, self, func, args, kwargs), lineage[self].intact)

ApplyHistory(self, other) ==
    /\ Running
    /\ Len(spectra) < MaxSpectra
    /\ Returned("apply_history", self, other, NoEntry,
                Spectrum_apply_history(Store, self, other),
                lineage[self].intact /\ lineage[other].intact)

\* a caller writes an entry of no known kind into the public history list
BogusEntry == Entry("bogus", "drop_last", <<>>, NoKwargs)

EditHistory(s) ==
    /\ Running
    /\ s = Len(spectra)
    /\ \A k \in 1..Len(lineage) : lineage[k].intact
    /\ histories' = [histories EXCEPT ![spectra[s].history] = Append(@, BogusEntry)]
    /\ lineage' = [lineage EXCEPT ![s].intact = FALSE]
    /\ sres' = [NoSRes EXCEPT !.op = "edit", !.self = s]
    /\ UNCHANGED <<arrays, spectra>>
    /\ UNCHANGED <<app_vars, gauss_vars, name_vars, ds_vars, guess_vars>>

InitSpectrum == Init

NextSpectrum ==
    \/ \E freq \in InputFreq, spec \in InputSpec : FromArrays(freq, spec)
    \/ \E self \in 1..Len(spectra), func \in SpecFns : \E c \in Calls(func) :
          ApplySpec(self, func, c[1], c[2])
    \/ \E self \in 1..Len(spectra), func \in FreqFns : \E c \in Calls(func) :
          ApplyFreq(self, func, c[1], c[2])
    \/ \E self \in 1..Len(spectra), func \in PairFns : \E c \in Calls(func) :
          ApplySpecFreq(self, func, c[1], c[2])
    \/ \E self \in 1..Len(spectra), func \in ObjectFns : \E c \in Calls(func) :
          ApplyObject(self, func, c[1], c[2])
    \/ \E self \in 1..Len(spectra), other \in 1..Len(spectra) : ApplyHistory(self, other)
    \/ \E s \in 1..Len(spectra) : EditHistory(s)

SpecSpectrum == InitSpectrum /\ [][NextSpectrum]_vars

\* ============================================ the Gaussian model (models.py)
\* Parameters are flat vectors of (a, mu, sigma) triples.  Values are integers and
\* exp() is taken to two decimals, in hundredths: a trace value v stands for v/100.
MaxPeaks == 1       \* Gaussian peaks in a parameter vector

Amps == {-1, 1, 2}
Mus == {0, 1}
Sigmas == {-1, 0, 1}
\* the bound Spectrum: domain, and the signal of one peak a = 1, mu = 1, sigma = 1
SpectrumX == <<0, 1, 2>>
SpectrumY == <<61, 100, 61>>
PredictDomains == {<<0, 1, 2>>, <<1>>}

\* flat vectors of n triples
RECURSIVE ParamVectors(_)
ParamVectors(n) ==
    IF n = 0 THEN {<<>>}
    ELSE {v \o <<a, mu, sigma>> : v \in ParamVectors(n - 1), a \in Amps, mu \in Mus,
                                  sigma \in Sigmas}
PeakCounts == 1..MaxPeaks
AllVectors == UNION {ParamVectors(n) : n \in PeakCounts}
\* a vector whose length is no multiple of 3
ShortVectors == {<<a, mu>> : a \in Amps, mu \in Mus}

\* 100 * exp(-num / (2 * sigma**2)) for sigma = 1 or -1, for the squared distances
\* num between a point of the domain and a centre in Mus
Exp100(num) ==
    CASE num = 0 -> 100
      [] num = 1 -> 61
      [] num = 4 -> 14
      [] OTHER -> 0

\* a * np.exp(-(x - mu)**2 / (2 * sigma**2)); with sigma = 0 numpy divides by zero:
\* 0/0 is nan at x = mu, and exp(-inf) is 0 elsewhere
Gauss(x, a, mu, sigma) ==
    IF sigma = 0
    THEN IF x = mu THEN NaN ELSE 0
    ELSE a * Exp100((x - mu) * (x - mu))

AddNaN(u, v) == IF u = NaN \/ v = NaN THEN NaN ELSE u + v

RECURSIVE SumPeaks(_, _, _)
\* for i in range(0, len(params), 3): ret += Gauss(x, params[i], params[i+1], params[i+2])
SumPeaks(x, params, i) ==
    IF i > Len(params) THEN 0
    ELSE AddNaN(Gauss(x, params[i], params[i + 1], params[i + 2]), SumPeaks(x, params, i + 3))

\* the sum of the peaks over a domain
EvalOver(domain, params) == [k \in 1..Len(domain) |-> SumPeaks(domain[k], params, 1)]

\* EvalModel(params): over the domain of the bound Spectrum
EvalModel(params) == EvalOver(SpectrumX, params)

Finite(trace) == \A k \in 1..Len(trace) : trace[k] # NaN
RECURSIVE SumSquares(_, _)
SumSquares(trace, k) ==
    IF k > Len(trace) THEN 0
    ELSE (trace[k] - SpectrumY[k]) * (trace[k] - SpectrumY[k]) + SumSquares(trace, k + 1)
\* the cost least_squares minimises: the squared residual EvalModel(p) - true_signal
Cost(p) == SumSquares(EvalModel(p), 1)

Feasible(p) == \A k \in 1..Len(p) : p[k] >= 0

\* least_squares(residual, x0, bounds=(0, inf), method='trf'): raises ValueError for
\* an x0 outside the bounds or with a residual that is not finite; otherwise returns
\* some vector inside the bounds whose cost is no larger than that of x0
least_squares(x0) ==
    IF ~Feasible(x0) \/ ~Finite(EvalModel(x0)) THEN {}
    ELSE \* the cost of x0 is computed once
         UNION {{p \in ParamVectors(Len(x0) \div 3) :
                    Feasible(p) /\ Finite(EvalModel(p)) /\ Cost(p) <= c0} : c0 \in {Cost(x0)}}

Array(vals) == [kind |-> "ndarray", vals |-> vals]
List(vals) == [kind |-> "list", vals |-> vals]

GRes(op, arg, ret, raised, log) ==
    [op |-> op, arg |-> arg, ret |-> ret, raised |-> raised, log |-> log,
     before |-> gauss.params.kind]

\* ModelGauss.Fit(params)
Fit(x0) ==
    /\ \E fit_result \in {least_squares(x0)} :
          IF fit_result = {}
          THEN /\ gres' = GRes("Fit", <<>>, NoValue, "ValueError", "None")
               /\ UNCHANGED gauss
          ELSE \E x \in fit_result :
                  /\ gauss' = [params |-> Array(x), trace |-> Array(EvalModel(x))]
                  /\ gres' = GRes("Fit", <<>>, [kind |-> "True", vals |-> <<>>],
                                  NoException, "None")
    /\ UNCHANGED <<app_vars, spectrum_vars, name_vars, ds_vars, guess_vars>>

\* mutant: the parameters are stored and the trace is left as it was
SetTunerParameters_stale(newparams) ==
    /\ IF Len(newparams) % 3 # 0
       THEN /\ gres' = GRes("SetTunerParameters", <<>>, NoValue, "ValueError", "None")
            /\ UNCHANGED gauss
       ELSE /\ gauss' = [gauss EXCEPT !.params = List(newparams)]
            /\ gres' = GRes("SetTunerParameters", <<>>, NoValue, NoException, "None")
    /\ UNCHANGED <<app_vars, spectrum_vars, name_vars, ds_vars, guess_vars>>

\* ModelGauss.SetTunerParameters(newparams), with the list the tuner window sends
SetTunerParameters(newparams) ==
    /\ IF Len(newparams) % 3 # 0
       THEN /\ gres' = GRes("SetTunerParameters", <<>>, NoValue, "ValueError", "None")
            /\ UNCHANGED gauss
       ELSE /\ gauss' = [params |-> List(newparams), trace |-> Array(EvalModel(newparams))]
            /\ gres' = GRes("SetTunerParameters", <<>>, NoValue, NoException, "None")
    /\ UNCHANGED <<app_vars, spectrum_vars, name_vars, ds_vars, guess_vars>>

\* ModelGauss.Predict(x).  `not self.params` is True for None and for an empty list,
\* raises ValueError for an ndarray of more than one element, and is False for a
\* list with elements; the loop then reads the name `params`, which is not defined
Predict(x) ==
    /\ gres' = CASE gauss.params.kind = "None" \/ (gauss.params.kind = "list" /\ gauss.params.vals = <<>>) ->
                      GRes("Predict", x, NoValue, NoException, "Logging.Error")
                 [] gauss.params.kind = "ndarray" ->
                      GRes("Predict", x, NoValue, "ValueError", "None")
                 [] OTHER ->
                      GRes("Predict", x, NoValue, "NameError", "None")
    /\ UNCHANGED gauss
    /\ UNCHANGED <<app_vars, spectrum_vars, name_vars, ds_vars, guess_vars>>

InitGauss == Init

NextGauss ==
    \/ \E x0 \in AllVectors : Fit(x0)
    \/ \E newparams \in AllVectors \cup ShortVectors : SetTunerParameters(newparams)
    \/ \E x \in PredictDomains : Predict(x)

SpecGauss == InitGauss /\ [][NextGauss]_vars

\* ============================================ DataSource.get_unique_name
\* A name is a sequence of characters.  A registered trace is a Spectrum, which has
\* a name ("" unless one is given), or a ModelGauss, which has no name attribute.
MaxNames == 2       \* registered traces

Digits == <<"0", "1", "2", "3", "4", "5", "6", "7", "8", "9">>
NameSet == {<<>>, <<"a">>, <<"a", "_", "1">>, <<"a", "_", "9">>, <<"a", "_", "1", "0">>}
NamedTrace(name) == [has_name |-> TRUE, name |-> name]
ModelTrace == [has_name |-> FALSE, name |-> <<>>]
TraceSet == {NamedTrace(name) : name \in NameSet} \cup {ModelTrace}
Registries == UNION {[1..n -> TraceSet] : n \in 0..MaxNames}

\* str.isnumeric, int() and str() on the last character
isnumeric(c) == \E k \in 1..10 : Digits[k] = c
int(c) == (CHOOSE k \in 1..10 : Digits[k] = c) - 1
str(n) == IF n < 10 THEN <<Digits[n + 1]>> ELSE <<Digits[(n \div 10) + 1], Digits[(n % 10) + 1]>>

RECURSIVE any_name(_, _, _)
\* any(name == t.name for t in self.traces), left to right
any_name(name, tr, i) ==
    IF i > Len(tr) THEN "False"
    ELSE IF ~tr[i].has_name THEN "AttributeError"
    ELSE IF tr[i].name = name THEN "True"
    ELSE any_name(name, tr, i + 1)

RECURSIVE get_unique_name(_, _)
get_unique_name(name, tr) ==
    LET found == any_name(name, tr, 1) IN
    IF found = "AttributeError" THEN [ret |-> <<>>, raised |-> "AttributeError"]
    ELSE IF found = "False" THEN [ret |-> name, raised |-> NoException]
    ELSE IF name = <<>> THEN [ret |-> <<>>, raised |-> "IndexError"]
    ELSE IF isnumeric(name[Len(name)])
         THEN get_unique_name(SubSeq(name, 1, Len(name) - 1) \o str(int(name[Len(name)]) + 1), tr)
         ELSE get_unique_name(name \o <<"_", "1">>, tr)

GetUniqueName(base) ==
    /\ \E out \in {get_unique_name(base, uq.traces)} :
          uq' = [uq EXCEPT !.op = "get_unique_name", !.base = base, !.ret = out.ret,
                           !.raised = out.raised]
    /\ UNCHANGED <<app_vars, spectrum_vars, gauss_vars, ds_vars, guess_vars>>

InitNames ==
    /\ AppInit
    /\ SpectrumIdle
    /\ GaussIdle
    /\ DsIdle
    /\ GuessIdle
    /\ \E tr \in Registries : uq = [NoUq EXCEPT !.traces = tr]

NextNames == \E base \in NameSet : GetUniqueName(base)

SpecNames == InitNames /\ [][NextNames]_vars

\* ================================= the wx application (ds.py, gui/subpanels.py)
\* DataSource of ds.py keeps the traces; DataTab shows one tree item per trace;
\* PlotRegion keeps the ids it has drawn in plotted_traces and listens to
\* Plotting.AddTrace and Plotting.RemoveTrace.  pubsub calls the listeners inside
\* sendMessage, and an exception of a listener leaves sendMessage.
MaxClicks == 5      \* user commands: load a file, add a model, toggle, remove

DsIds(tr) == {tr[k].id : k \in 1..Len(tr)}

\* DataSource.GetTraceByID: the first trace with the id (its position), or ValueError
GetTraceByID(tr, t_id) ==
    LET hits == {k \in 1..Len(tr) : tr[k].id = t_id} IN
    IF hits = {}
    THEN [ret |-> 0, raised |-> "ValueError"]
    ELSE [ret |-> CHOOSE k \in hits : \A j \in hits : k <= j, raised |-> NoException]

\* list.remove(x): the list without the first occurrence of x
list_remove(seq, x) ==
    Pop(seq, CHOOSE k \in 1..Len(seq) : seq[k] = x /\ \A j \in 1..(k - 1) : seq[j] # x)

AddJob(t_id) == [kind |-> "add", id |-> t_id]
ReplotJob == [kind |-> "replot", id |-> 0]

\* PlotRegion.RemoveTraceFromPlot: the traces, plotted_traces and the plot thread's
\* calls afterwards, and the exception that leaves the listener
RemoveTraceFromPlot(tr, pl, jobs, t_id) ==
    LET g == GetTraceByID(tr, t_id) IN
    IF g.raised # NoException
    THEN [traces |-> tr, plotted |-> pl, jobs |-> jobs, raised |-> g.raised]
    ELSE LET tr1 == [tr EXCEPT ![g.ret].is_plotted = FALSE] IN
         IF t_id \in Range(pl)
         THEN [traces |-> tr1, plotted |-> list_remove(pl, t_id),
               jobs |-> Append(jobs, ReplotJob), raised |-> NoException]
         ELSE [traces |-> tr1, plotted |-> pl, jobs |-> jobs, raised |-> "RuntimeError"]

\* DataSource.DeleteTrace of ds.py: sendMessage('Plotting.RemoveTrace'), then the loop
\* that pops the first trace with the id
ds_DeleteTrace(tr, pl, jobs, target_id) ==
    LET r == RemoveTraceFromPlot(tr, pl, jobs, target_id) IN
    IF r.raised # NoException
    THEN r
    ELSE [r EXCEPT !.traces = Pop(r.traces, GetTraceByID(r.traces, target_id).ret)]

DRes(op, arg, registered, raised) ==
    [op |-> op, arg |-> arg, registered |-> registered, raised |-> raised]

\* GetNextId, traces.append(...), sendMessage('UI.Tree.AddTrace') -> DataTab.AddTrace
ds_append(op) ==
    /\ ds_trace_counter' = ds_trace_counter + 1
    /\ ds_traces' = Append(ds_traces, [id |-> ds_trace_counter + 1, is_plotted |-> FALSE])
    /\ tree_items' = tree_items \cup {ds_trace_counter + 1}
    /\ dres' = DRes(op, ds_trace_counter + 1, FALSE, NoException)

\* Data.LoadCSV: the file is read (IOError if that fails) and the Spectrum added
AddTraceFromCSV(readable) ==
    /\ clicks < MaxClicks
    /\ clicks' = clicks + 1
    /\ IF readable
       THEN ds_append("AddTraceFromCSV")
       ELSE /\ dres' = DRes("AddTraceFromCSV", 0, FALSE, "IOError")
            /\ UNCHANGED <<ds_traces, ds_trace_counter, tree_items>>
    /\ UNCHANGED <<plotted_traces, is_blank, plot_thread>>
    /\ UNCHANGED <<app_vars, spectrum_vars, gauss_vars, name_vars, guess_vars>>

\* Data.AddModel: a fitted model is added
AddModel ==
    /\ clicks < MaxClicks
    /\ clicks' = clicks + 1
    /\ ds_append("AddModel")
    /\ UNCHANGED <<plotted_traces, is_blank, plot_thread>>
    /\ UNCHANGED <<app_vars, spectrum_vars, gauss_vars, name_vars, guess_vars>>

\* DataTab.TogglePlotted on the tree item of trace t_id
TogglePlotted(t_id) ==
    /\ clicks < MaxClicks
    /\ t_id \in tree_items
    /\ clicks' = clicks + 1
    /\ LET k == GetTraceByID(ds_traces, t_id).ret IN
       IF ds_traces[k].is_plotted
       THEN \E r \in {RemoveTraceFromPlot(ds_traces, plotted_traces, plot_thread, t_id)} :
               /\ ds_traces' = r.traces
               /\ plotted_traces' = r.plotted
               /\ plot_thread' = r.jobs
               /\ dres' = DRes("TogglePlotted", t_id, TRUE, r.raised)
       ELSE /\ ds_traces' = [ds_traces EXCEPT ![k].is_plotted = TRUE]
            /\ plot_thread' = Append(plot_thread, AddJob(t_id))
            /\ dres' = DRes("TogglePlotted", t_id, TRUE, NoException)
            /\ UNCHANGED plotted_traces
    /\ UNCHANGED <<ds_trace_counter, tree_items, is_blank>>
    /\ UNCHANGED <<app_vars, spectrum_vars, gauss_vars, name_vars, guess_vars>>

\* DataTab.RemoveTrace on the tree item of trace t_id, answered with Yes:
\* tree.Delete, then sendMessage('Data.DeleteTrace') -> DataSource.DeleteTrace
RemoveTrace(t_id) ==
    /\ clicks < MaxClicks
    /\ t_id \in tree_items
    /\ clicks' = clicks + 1
    /\ tree_items' = tree_items \ {t_id}
    /\ \E d \in {ds_DeleteTrace(ds_traces, plotted_traces, plot_thread, t_id)} :
          /\ ds_traces' = d.traces
          /\ plotted_traces' = d.plotted
          /\ plot_thread' = d.jobs
          /\ dres' = DRes("DeleteTrace", t_id, t_id \in DsIds(ds_traces), d.raised)
    /\ UNCHANGED <<ds_trace_counter, is_blank>>
    /\ UNCHANGED <<app_vars, spectrum_vars, gauss_vars, name_vars, guess_vars>>

\* do_plot's loop over plotted_traces from position k: is_plotted = True for each trace
\* found; GetTraceByID raises for an id that is gone and ends the call
RECURSIVE do_plot_loop(_, _, _)
do_plot_loop(tr, pl, k) ==
    IF k > Len(pl)
    THEN [traces |-> tr, raised |-> NoException]
    ELSE LET g == GetTraceByID(tr, pl[k]) IN
         IF g.raised # NoException
         THEN [traces |-> tr, raised |-> g.raised]
         ELSE do_plot_loop([tr EXCEPT ![g.ret].is_plotted = TRUE], pl, k + 1)

\* the plot thread runs its oldest call: run(t_id) of AddTraceToPlot, or do_plot of Replot
PlotThreadRun ==
    /\ plot_thread # <<>>
    /\ plot_thread' = Tail(plot_thread)
    /\ LET job == Head(plot_thread) IN
       IF job.kind = "add"
       THEN LET g == GetTraceByID(ds_traces, job.id) IN
            IF g.raised # NoException
            THEN UNCHANGED <<ds_traces, plotted_traces, is_blank>>
            ELSE /\ ds_traces' = IF is_blank
                                 THEN [ds_traces EXCEPT ![g.ret].is_plotted = TRUE]
                                 ELSE ds_traces
                 /\ is_blank' = FALSE
                 /\ plotted_traces' = Append(plotted_traces, job.id)
       ELSE \E d \in {do_plot_loop(ds_traces, plotted_traces, 1)} :
               /\ ds_traces' = d.traces
               /\ is_blank' = (plotted_traces = <<>> \/ d.raised # NoException)
               /\ UNCHANGED plotted_traces
    /\ UNCHANGED <<ds_trace_counter, tree_items, clicks, dres>>
    /\ UNCHANGED <<app_vars, spectrum_vars, gauss_vars, name_vars, guess_vars>>

NextDs ==
    \/ \E readable \in BOOLEAN : AddTraceFromCSV(readable)
    \/ AddModel
    \/ \E t_id \in 1..MaxClicks : TogglePlotted(t_id)
    \/ \E t_id \in 1..MaxClicks : RemoveTrace(t_id)
    \/ PlotThreadRun

SpecDs == Init /\ [][NextDs]_vars

\* ===================================== the peak detector (models.py ParamGuess)
\* Positions are Python's: the first sample of a column has index 0.  A candidate
\* is <<amplitude, index, sigma>> as zip(sig[peaks], peaks, widths[0] / 2) builds it.
\* The widths drawn for peak_widths are even, so that sigma = width / 2 is an integer.
MaxLen == 5         \* samples of a Spectrum

NoWinlen == 0       \* winlen=None; `not winlen` is also true of 0
NoMax == -1         \* peak_range[1] = None

\* the columns of one DataFrame, x and y of the same length n: x is the positions
\* themselves, or starts at 1, or has a step of 10; y has bumps at the odd positions
XColumns(n) == {[k \in 1..n |-> k - 1], [k \in 1..n |-> k], [k \in 1..n |-> 10 * k]}
YColumns(n) ==
    {[k \in 1..n |-> IF k % 2 = 0 THEN 2 ELSE 0],
     [k \in 1..n |-> IF k % 2 = 1 THEN 0 ELSE IF k = 2 THEN 2 ELSE 1],
     [k \in 1..n |-> IF k % 2 = 1 THEN 0 ELSE IF k = 2 THEN -1 ELSE 2]}
Signals == UNION {{[x |-> xs, y |-> ys] : xs \in XColumns(n), ys \in YColumns(n)} :
                     n \in 1..MaxLen}

PolyOrders == {0, 2}
Winlens == {NoWinlen, 2, 3, 7}
PeakRanges == {<<0, NoMax>>, <<0, 0>>, <<0, 1>>, <<2, 2>>, <<2, NoMax>>}
Widths2 == {0, 2, 4}

\* what find_peaks and peak_widths may return for an array of n samples: strictly
\* increasing positions of local maxima (never the first or the last sample, never
\* two neighbours), each with a width >= 0; FoundFrom: with the positions from lo on
RECURSIVE FoundFrom(_, _)
FoundFrom(lo, n) ==
    {<<>>} \cup UNION {{<<[idx |-> i, width |-> w]>> \o rest : rest \in FoundFrom(i + 2, n)} :
                          i \in lo..(n - 2), w \in Widths2}
Found(n) == FoundFrom(1, n)

MinOf(seq) == CHOOSE v \in Range(seq) : \A u \in Range(seq) : v <= u
MaxOf(seq) == CHOOSE v \in Range(seq) : \A u \in Range(seq) : v >= u

\* lines 157-160: the window length savgol_filter is called with
resolve_winlen(n, winlen) ==
    LET w == IF winlen = 0 THEN n \div 10 ELSE winlen IN
    IF w % 2 = 0 THEN w + 1 ELSE w

\* signal.savgol_filter(sig, winlen, polyorder, deriv=2, delta=delta), mode 'interp':
\* ValueError when polyorder >= window_length or window_length > len(sig)
savgol_raises(n, window, polyorder) == polyorder >= window \/ window > n

\* list(zip(sig[peaks], peaks, widths[0] / 2))
candidates_of(y, found) ==
    [k \in 1..Len(found) |-> <<y[found[k].idx + 1], found[k].idx, found[k].width \div 2>>]

\* the sort key (x[2], x[0]) compared as Python compares tuples
KeyLess(c, d) == c[3] < d[3] \/ (c[3] = d[3] /\ c[1] < d[1])

\* list.sort(key=..., reverse=True) is stable: c goes behind every entry whose key is
\* not smaller than its own
RECURSIVE insert_desc(_, _)
insert_desc(sorted, c) ==
    IF sorted = <<>> THEN <<c>>
    ELSE IF KeyLess(Head(sorted), c) THEN <<c>> \o sorted
    ELSE <<Head(sorted)>> \o insert_desc(Tail(sorted), c)

\* mutant: the candidates stay in the order of their positions
sort_none(cands, k) == SubSeq(cands, 1, k)

RECURSIVE sort_desc(_, _)
\* candidates.sort(key=lambda x: (x[2], x[0]), reverse=True), the first k of cands
sort_desc(cands, k) ==
    IF k = 0 THEN <<>> ELSE insert_desc(sort_desc(cands, k - 1), cands[k])

\* lines 185-191: the two tests that skip a candidate
skipped(c, x) ==
    \/ \E j \in 1..3 : c[j] < 0 \/ c[j] = 0
    \/ ~(MinOf(x) <= c[2] /\ c[2] < MaxOf(x))

\* lines 180-194: the loop over the sorted candidates, from the i-th on
RECURSIVE accept(_, _, _, _, _)
accept(cands, i, accepted, max_peaks, x) ==
    IF i > Len(cands) THEN accepted
    ELSE IF Len(accepted) \div 3 = max_peaks THEN accepted
    ELSE IF skipped(cands[i], x) THEN accept(cands, i + 1, accepted, max_peaks, x)
    ELSE accept(cands, i + 1, accepted \o cands[i], max_peaks, x)

NoneValue == [kind |-> "None", vals |-> <<>>]

\* ModelGauss.ParamGuess on the columns x, y, given what scipy found: the value
\* returned, the exception raised, the Logging.Error messages and the window length
param_guess(x, y, polyorder, winlen, peak_range, found) ==
    IF Len(y) # Len(x)
    THEN [ret |-> NoneValue, raised |-> NoException, log |-> {"not the same length"},
          window |-> 0, found |-> <<>>]
    ELSE IF Len(x) < 2
    THEN [ret |-> NoneValue, raised |-> "KeyError", log |-> {}, window |-> 0,
          found |-> <<>>]
    ELSE LET window == resolve_winlen(Len(y), winlen) IN
         IF savgol_raises(Len(y), window, polyorder)
         THEN [ret |-> NoneValue, raised |-> "ValueError", log |-> {}, window |-> window,
               found |-> <<>>]
         ELSE LET cands == sort_desc(candidates_of(y, found), Len(found))
                  accepted == accept(cands, 1, <<>>, peak_range[2], x)
              IN [ret |-> [kind |-> "list", vals |-> accepted],
                  raised |-> NoException,
                  log |-> (IF Len(accepted) \div 3 < peak_range[1]
                           THEN {"Minimum number of peaks not reached"} ELSE {})
                          \cup (IF Len(accepted) = 0 THEN {"No peaks found."} ELSE {}),
                  window |-> window,
                  found |-> found]

\* ModelGauss.Fit(params) as ExecModel calls it: "True", or the exception least_squares
\* raises.  None is no feasible x0; what least_squares does with an empty x0 is not
\* fixed by its contract; a guess ParamGuess accepted lies strictly inside the bounds.
fit_outcomes(guess) ==
    IF guess.kind = "None" THEN {"ValueError"}
    ELSE IF guess.vals = <<>> THEN {"ValueError", "True"}
    ELSE {"True"}

PRes(op, polyorder, winlen, peak_range, g, fit_called, fit, submitted) ==
    [op |-> op, polyorder |-> polyorder, winlen |-> winlen, peak_range |-> peak_range,
     found |-> g.found, window |-> g.window, ret |-> g.ret, raised |-> g.raised,
     log |-> g.log, fit_called |-> fit_called, fit |-> fit, submitted |-> submitted]

\* M(spec, None): a model bound to a Spectrum
NewModel(sig) ==
    /\ target = NoTarget
    /\ target' = sig
    /\ UNCHANGED pres
    /\ UNCHANGED <<app_vars, spectrum_vars, gauss_vars, name_vars, ds_vars>>

\* m.ParamGuess(polyorder, winlen, peak_range) on the bound Spectrum; the call keeps
\* no state, so one call per model shows all it does
ParamGuess(polyorder, winlen, peak_range, found) ==
    /\ target # NoTarget
    /\ pres = NoPRes
    /\ \E g \in {param_guess(target.x, target.y, polyorder, winlen, peak_range, found)} :
          /\ g.raised = NoException /\ g.ret.kind = "list" => g.found = found
          /\ pres' = PRes("ParamGuess", polyorder, winlen, peak_range, g, FALSE, "None", FALSE)
    /\ UNCHANGED target
    /\ UNCHANGED <<app_vars, spectrum_vars, gauss_vars, name_vars, ds_vars>>

\* ExecModel's run(M, spec, params): m = M(spec, None); if not m.Fit(m.ParamGuess(
\* **params)): return; sendMessage('Data.AddModel', model=m)
ExecModel(sig, polyorder, winlen, peak_range, found) ==
    /\ target = NoTarget
    /\ target' = sig
    /\ \E g \in {param_guess(sig.x, sig.y, polyorder, winlen, peak_range, found)} :
          IF g.raised # NoException
          THEN pres' = PRes("ExecModel", polyorder, winlen, peak_range, g, FALSE, "None", FALSE)
          ELSE \E f \in fit_outcomes(g.ret) :
                  pres' = PRes("ExecModel", polyorder, winlen, peak_range, g, TRUE, f,
                               f = "True")
    /\ UNCHANGED <<app_vars, spectrum_vars, gauss_vars, name_vars, ds_vars>>

\* the Spectra a model can still be bound to, and the calls it can still take
Unbound == IF target = NoTarget THEN Signals ELSE {}
Callable == IF target # NoTarget /\ pres = NoPRes THEN PolyOrders ELSE {}

NextGuess ==
    \/ \E sig \in Unbound : NewModel(sig)
    \/ \E po \in Callable, w \in Winlens, pr \in PeakRanges :
          \E found \in Found(Len(target.y)) : ParamGuess(po, w, pr, found)
    \/ \E sig \in Unbound, po \in PolyOrders, w \in Winlens, pr \in PeakRanges :
          \E found \in Found(Len(sig.y)) : ExecModel(sig, po, w, pr, found)

SpecGuess == Init /\ [][NextGuess]_vars

\* ================================================================== claims
Registered(t) == t \in IdsOf(traces, heap)
Placeholders == {PlaceholderId, NoneId}
Dequeued == {assigned[j][1] : j \in 1..Len(assigned)}
Count(seq, x) == Cardinality({k \in 1..Len(seq) : seq[k] = x})

\* C1: the ids get_next_task assigns are strictly increasing in dequeue order, each
\* registered object keeps the id it was given, and no two entries of traces share
\* an id, whatever delete_trace calls are interleaved.
C1_IdsDistinctIncreasing ==
    /\ \A j, k \in 1..Len(assigned) : j < k => assigned[j][2] < assigned[k][2]
    /\ \A j \in 1..Len(assigned) : heap[assigned[j][1]].id = assigned[j][2]
    /\ \A j, k \in 1..Len(traces) : j # k => heap[traces[j]].id # heap[traces[k]].id

\* two traces were registered and a delete_trace removed an entry in between or after
C1_Witness == Len(assigned) >= 2 /\ removed_ids # {}

\* C2: once delete_trace has removed the entry of an id, get_trace raises for that id
\* in every later state (so no later registration receives it), and an object only
\* moves Unregistered -> Registered -> Removed.
Rank(ref) ==
    IF ref \in Range(traces) THEN 1
    ELSE IF ref \in Dequeued THEN 2
    ELSE 0

C2_RetiredIdsStayRetired ==
    /\ [](\A t \in removed_ids : get_trace(t, traces, heap).raised = "ValueError")
    /\ [][\A ref \in 1..Len(heap) : Rank(ref)' >= Rank(ref)]_vars

\* a trace was registered by a get_next_task that came after a removal
C2_Witness ==
    /\ removed_ids # {}
    /\ result.op = "get_next_task"
    /\ result.ret \in Range(traces)
    /\ \A t \in removed_ids : heap[result.ret].id > t

IsWorkerStep ==
    \E r \in 1..Len(runs) :
        \/ runs'[r].future # runs[r].future
        \/ runs'[r].posted # runs[r].posted

C6_DeleteUnknownReportsError ==
    (result.op = "delete_trace" /\ ~result.msg.resolvable)
    => result.raised # NoException

C9_FailedRunIsRecorded ==
    /\ [](\A r \in 1..Len(runs) :
            /\ runs[r].status = "Failed" => runs[r].exception # NoException
            /\ runs[r].exception # NoException
               => \A ref \in 1..Len(heap) : heap[ref].run # r)
    /\ [][\A r \in 1..Len(runs) :
            (/\ TickIter
             /\ thread_futures[tick_i + 1] = r
             /\ runs[r].future = "done"
             /\ runs[r].exception # NoException)
            => /\ runs'[r].status = "Failed"
               /\ runs'[r].message_text = Append(runs[r].message_text, runs[r].exception)
               /\ thread_futures' = Pop(thread_futures, tick_i + 1)
               /\ tick_i' = tick_i
               /\ result'.op = "get_next_task"
               /\ ingest_queue # <<>> => ingest_queue' = Tail(ingest_queue)
               /\ \A o \in 1..Len(runs) : o # r => runs'[o] = runs[o]]_vars

\* one run failed, and the consumer went on to finish another run and register its trace
C9_Witness ==
    \E r, o \in 1..Len(runs) :
        /\ runs[r].status = "Failed"
        /\ runs[r].message_text # <<>>
        /\ runs[o].status = "Succeeded"
        /\ \E ref \in Range(traces) : heap[ref].run = o

\* C10: when delete_trace removes an entry, the Plotting.RemoveTrace message it
\* published carries that id and was published while get_trace of the id still
\* succeeded.
C10_NotifyBeforeRemove ==
    [][(result'.op = "delete_trace" /\ Len(traces') < Len(traces))
       => result'.msg = [t_id |-> result'.arg, resolvable |-> TRUE]]_vars

\* the last call published the message for a resolvable id, which is now gone
C10_Witness ==
    /\ result.op = "delete_trace"
    /\ result.msg.resolvable
    /\ result.msg.t_id = result.arg
    /\ ~Registered(result.arg)

\* ------------------------------------------------------------- Spectrum claims
XVals(s) == arrays[spectra[s].x].vals
YVals(s) == arrays[spectra[s].y].vals
History(s) == histories[spectra[s].history]
\* what a caller can observe of a Spectrum
View(s) ==
    [domain |-> XVals(s), signal |-> YVals(s), name |-> spectra[s].name,
     specunit |-> spectra[s].specunit, frequnit |-> spectra[s].frequnit,
     id |-> spectra[s].id, history |-> History(s)]
ApplyOps == HistoryKinds \cup {"apply_history"}
Succeeded == sres.raised = NoException
HeldUnchanged == \A s \in 1..Len(spectra) : View(s)' = View(s)

\* C11: no apply_* call changes what can be observed of an existing Spectrum (the
\* receiver included), and the Spectrum a successful call returns is a different
\* object from every existing one.
C11_ApplyLeavesReceiverAndReturnsNew ==
    [][sres'.op \in ApplyOps =>
          /\ HeldUnchanged
          /\ sres'.raised = NoException => sres'.ret > Len(spectra)]_vars

\* C12: a successful apply_spec / apply_freq / apply_spec_freq / apply_object
\* returns a Spectrum whose history is the receiver's history followed by exactly
\* one entry, which records the kind of the call, the function, the positional and
\* the keyword arguments.
C12_HistoryGrowsByTheCall ==
    (sres.op \in HistoryKinds /\ Succeeded) =>
        /\ sres.entry.type = sres.op
        /\ History(sres.ret) = Append(History(sres.self), sres.entry)

C12_Witness ==
    /\ sres.op \in HistoryKinds
    /\ Succeeded
    /\ Len(History(sres.ret)) = 2
    /\ History(sres.ret)[1].type # History(sres.ret)[2].type
    /\ sres.entry.kwargs # NoKwargs
    /\ lineage[sres.ret].intact

\* C13: a successful self.apply_history(other) returns a Spectrum whose history
\* is self's history followed by other's history, entry for entry.
C13_ReplayAppendsOthersHistory ==
    (sres.op = "apply_history" /\ Succeeded) =>
        History(sres.ret) = History(sres.self) \o History(sres.other)

C13_Witness ==
    /\ sres.op = "apply_history"
    /\ Succeeded
    /\ Len(History(sres.self)) >= 1
    /\ Len(History(sres.other)) >= 2
    /\ History(sres.other)[1] # History(sres.other)[2]

Base(s) == lineage[s].base
SameData(s, t) == XVals(s) = XVals(t) /\ YVals(s) = YVals(t)

\* C14: when other was made from a from_arrays Spectrum b by a chain of apply_*
\* calls and its history is the record of that chain, replaying it onto a Spectrum
\* with the domain and signal of b returns a Spectrum with the domain and signal
\* of other.
C14_ReplayRoundTrip ==
    (/\ sres.op = "apply_history"
     /\ Succeeded
     /\ lineage[sres.other].intact
     /\ SameData(sres.self, Base(sres.other)))
        => SameData(sres.ret, sres.other)

C14_Witness ==
    /\ sres.op = "apply_history"
    /\ Succeeded
    /\ lineage[sres.other].intact
    /\ SameData(sres.self, Base(sres.other))
    /\ sres.self # Base(sres.other)
    /\ Len(History(sres.other)) >= 1
    /\ \E k \in 1..Len(History(sres.other)) : History(sres.other)[k].kwargs # NoKwargs
    /\ ~SameData(sres.ret, sres.self)

UnknownKind(h) == \E k \in 1..Len(h) : h[k].type \notin HistoryKinds

\* C15: apply_history raises, and returns no Spectrum, when other's history has an
\* entry of a kind that is none of spec, freq, spec_freq, object; the receiver,
\* other and every other existing Spectrum are left as they were.
C15_UnknownKindRaises ==
    [][(sres'.op = "apply_history" /\ UnknownKind(histories[spectra[sres'.other].history])) =>
          /\ sres'.raised = "ValueError"
          /\ sres'.ret = 0
          /\ Len(spectra') = Len(spectra)
          /\ HeldUnchanged]_vars

C15_Witness ==
    /\ sres.op = "apply_history"
    /\ sres.raised = "ValueError"
    /\ Len(History(sres.other)) >= 2
    /\ History(sres.other)[1].type \in HistoryKinds
    /\ UnknownKind(History(sres.other))

\* C16: the domain and the signal of every Spectrum have the same length.
C16_SameLength ==
    \A s \in 1..Len(spectra) : Len(XVals(s)) = Len(YVals(s))

C16_Witness ==
    /\ sres.op = "freq"
    /\ Succeeded
    /\ sres.entry.callable = "drop_last"
    /\ Len(XVals(sres.ret)) = Len(XVals(sres.self))
    /\ XVals(sres.ret)[Len(XVals(sres.ret))] = NaN

\* ------------------------------------------------------------- Gaussian model claims
Fitted == gauss.params.kind # "None"

\* C17: whenever the model holds parameters, the cached trace is the evaluation of
\* those parameters over the domain of the bound Spectrum.
C17_TraceIsEvalOfParams ==
    Fitted => (gauss.trace.kind = "ndarray" /\ gauss.trace.vals = EvalModel(gauss.params.vals))

C17_Witness ==
    /\ gres.op = "SetTunerParameters"
    /\ gres.raised = NoException
    /\ gres.before = "ndarray"
    /\ gauss.params.kind = "list"
    /\ gauss.trace.vals = EvalModel(gauss.params.vals)
    /\ \E k \in 1..Len(gauss.trace.vals) : gauss.trace.vals[k] < 0

Amplitudes(p) == {p[k] : k \in {j \in 1..Len(p) : j % 3 = 1}}
Widths(p) == {p[k] : k \in {j \in 1..Len(p) : j % 3 = 0}}

\* C18: the stored parameters never hold a negative amplitude or a negative width.
C18_AmplitudesAndWidthsNonNegative ==
    \A v \in Amplitudes(gauss.params.vals) \cup Widths(gauss.params.vals) : v >= 0

\* C19: Predict on a model without parameters returns no value, reports the error
\* and leaves params and trace as they were; on a model with parameters it returns
\* the stored parameters evaluated over the domain it is given.
C19_PredictEvaluatesStoredParams ==
    [][gres'.op = "Predict" =>
          /\ gauss' = gauss
          /\ ~Fitted => (gres'.ret = NoValue /\ (gres'.raised # NoException \/ gres'.log # "None"))
          /\ Fitted => /\ gres'.raised = NoException
                       /\ gres'.ret = Array(EvalOver(gres'.arg, gauss.params.vals))]_vars

\* ------------------------------------------------------------- unique-name claims
RegisteredNames == {uq.traces[k].name : k \in {j \in 1..Len(uq.traces) : uq.traces[j].has_name}}
AllNamed == \A k \in 1..Len(uq.traces) : uq.traces[k].has_name

\* C20: when every registered trace has a name, get_unique_name(base) returns a
\* name that no registered trace has, and returns base itself when base is free.
C20_UniqueNameIsFree ==
    (uq.op = "get_unique_name" /\ AllNamed) =>
        /\ uq.raised = NoException
        /\ uq.ret \notin RegisteredNames
        /\ uq.base \notin RegisteredNames => uq.ret = uq.base
\* ===================================================== the poll loop, continued
\* C22: a call of _check_thread_status takes at most one item off the ingestion queue,
\* whatever the number of ToolRuns outstanding.
C22_OneItemPerTick == drained <= 1

Queued(ref) == ref \in Range(ingest_queue)

Ingested(ref) ==
    /\ ref <= Len(heap)
    /\ ~Queued(ref)
    /\ heap[ref].kind \in TraceKinds => ref \in Range(tree)

\* C23: while the poll is scheduled and its ticks keep firing, every item on the
\* ingestion queue is eventually taken off it and, if it is a trace, handed to the UI
\* tree; also for an item posted while no ToolRun future is outstanding.
C23_QueuedIsEventuallyIngested ==
    \A ref \in 1..MaxSubmits : (Queued(ref) /\ thread_clock_event) ~> Ingested(ref)

\* C24: the poll is scheduled whenever a ToolRun future is outstanding, and once no
\* future is outstanding and the queue is empty the poll is eventually unscheduled
\* (_thread_clock_event is None again).
C24_PollScheduledWhileWorkOutstanding ==
    /\ [](thread_futures # <<>> => thread_clock_event)
    /\ (thread_futures = <<>> /\ ingest_queue = <<>>) ~> ~thread_clock_event

\* C29: a ToolRun starts as Not Started; its status only moves Not Started -> Running
\* -> Succeeded or Failed; the last move is made by the pass of the poll that removes
\* the run's future, Succeeded exactly when the finished call raised nothing; a
\* Succeeded or Failed status never changes again.
C29_StatusMovesForward ==
    [][\A r \in 1..Len(runs') :
          IF r > Len(runs)
          THEN runs'[r].status = "Not Started"
          ELSE LET a == runs[r].status
                   b == runs'[r].status
               IN a # b =>
                  \/ a = "Not Started" /\ b = "Running"
                  \/ /\ a = "Running"
                     /\ b \in {"Succeeded", "Failed"}
                     /\ tick_i >= 0
                     /\ runs[r].future = "done"
                     /\ (b = "Succeeded") <=> (runs[r].exception = NoException)
                     /\ r \in Range(thread_futures)
                     /\ r \notin Range(thread_futures')]_vars

\* one run went all the way to Succeeded and another to Failed
C29_Witness ==
    \E r, q \in 1..Len(runs) :
        /\ runs[r].status = "Succeeded"
        /\ runs[q].status = "Failed"
        /\ thread_futures = <<>>
\* ============================================================ the wx application
\* C30: with PlotRegion subscribed to Plotting.RemoveTrace, DataSource.DeleteTrace of
\* ds.py called for a registered id removes that trace from the registry, whether or
\* not the trace is plotted.
C30_DeleteRemovesRegistered ==
    (dres.op = "DeleteTrace" /\ dres.registered) => dres.arg \notin DsIds(ds_traces)
\* ============================================================ the peak detector
\* the call returned a list: the triples of its flat result
Guessed == pres.op # "None" /\ pres.raised = NoException /\ pres.ret.kind = "list"
Triple(k) == SubSeq(pres.ret.vals, 3 * k - 2, 3 * k)
Accepted == Len(pres.ret.vals) \div 3

\* C25: the result is flat with three entries per accepted peak, and every triple is
\* (Y[idx], X[idx], width / 2) of a candidate position idx, with amplitude > 0,
\* sigma > 0 and min(X) <= center < max(X).
C25_TriplesAreCandidates ==
    Guessed =>
        /\ Len(pres.ret.vals) = 3 * Accepted
        /\ \A k \in 1..Accepted :
              \E j \in 1..Len(pres.found) :
                 LET idx == pres.found[j].idx IN
                 /\ Triple(k) = <<target.y[idx + 1], target.x[idx + 1],
                                  pres.found[j].width \div 2>>
                 /\ Triple(k)[1] > 0
                 /\ Triple(k)[3] > 0
                 /\ MinOf(target.x) <= Triple(k)[2]
                 /\ Triple(k)[2] < MaxOf(target.x)

\* the candidates that pass the two tests of the loop, and whether one was accepted
Passing ==
    {c \in Range(candidates_of(target.y, pres.found)) : ~skipped(c, target.x)}
IsAccepted(c) == \E k \in 1..Accepted : Triple(k) = c

C27_EmptyGuessIsFatal ==
    (pres.op = "ExecModel" /\ Guessed) =>
        /\ Accepted = 0 => ~pres.fit_called /\ ~pres.submitted
        /\ (0 < Accepted /\ Accepted < pres.peak_range[1]) =>
              /\ "Minimum number of peaks not reached" \in pres.log
              /\ pres.fit_called
              /\ pres.submitted

\* C28: the window length savgol_filter is called with is odd and greater than the
\* polynomial order, whatever the signal length and the order.
C28_WindowOddAboveOrder ==
    (pres.op # "None" /\ pres.raised # "KeyError") =>
        /\ pres.window % 2 = 1
        /\ pres.window > pres.polyorder
====
